---- MODULE Spec2Model ----
(***************************************************************************)
(* Model of the Telnyx SMS webhook server (src/main.py).                   *)
(*                                                                         *)
(* Text is modelled character by character: a Python str is a sequence of  *)
(* one-character strings.  A decoded JSON value is a record [t, v] with    *)
(* t in {"str","dict","list","null"}; a dict's v is the sequence of its    *)
(* <<key, value>> items in insertion order, a list's v is its items.       *)
(* A row of table sms_messages is a record of its seven columns.           *)
(***************************************************************************)
EXTENDS Integers, Sequences, FiniteSets

VARIABLES store, last, request, calls

vars == <<store, last, request, calls>>

\* ------------------------------------------------------------------ bounds

MaxRecords == 2
MaxLimit == 2
MaxWorkers == 2
MaxSegments == 4

\* ------------------------------------------------------------ characters

DigitChars == <<"0", "1", "2", "3", "4", "5", "6", "7", "8", "9">>
LowerChars == <<"a", "b", "c", "d", "e", "f", "g", "h", "i", "j", "k", "l", "m",
                "n", "o", "p", "q", "r", "s", "t", "u", "v", "w", "x", "y", "z">>
UpperChars == <<"A", "B", "C", "D", "E", "F", "G", "H", "I", "J", "K", "L", "M",
                "N", "O", "P", "Q", "R", "S", "T", "U", "V", "W", "X", "Y", "Z">>

Range(s) == {s[i] : i \in 1..Len(s)}

IsDigit(c) == c \in Range(DigitChars)
IsWordChar(c) == c \in Range(DigitChars) \cup Range(LowerChars) \cup Range(UpperChars) \cup {"_"}
IsSpace(c) == c \in {" "}

\* str.lower() / re.IGNORECASE on one character
LowerOf(c) ==
    IF c \in Range(UpperChars)
    THEN LowerChars[CHOOSE i \in 1..Len(UpperChars) : UpperChars[i] = c]
    ELSE c

Lowered(s) == [i \in 1..Len(s) |-> LowerOf(s[i])]

\* byte order of the characters the model's timestamps use (BINARY collation)
Ord(c) ==
    IF c = "+" THEN 0
    ELSE IF c = "-" THEN 1
    ELSE IF IsDigit(c) THEN 1 + (CHOOSE i \in 1..Len(DigitChars) : DigitChars[i] = c)
    ELSE IF c = ":" THEN 12
    ELSE IF c \in Range(UpperChars) THEN 12 + (CHOOSE i \in 1..Len(UpperChars) : UpperChars[i] = c)
    ELSE IF c \in Range(LowerChars) THEN 40 + (CHOOSE i \in 1..Len(LowerChars) : LowerChars[i] = c)
    ELSE 80

\* a < b as SQLite compares two TEXT values
RECURSIVE StrLess(_, _)
StrLess(a, b) ==
    IF Len(b) = 0 THEN FALSE
    ELSE IF Len(a) = 0 THEN TRUE
    ELSE IF Ord(a[1]) # Ord(b[1]) THEN Ord(a[1]) < Ord(b[1])
    ELSE StrLess(Tail(a), Tail(b))

\* `needle in haystack` at position i, and anywhere
MatchAt(needle, s, i) ==
    /\ i + Len(needle) - 1 <= Len(s)
    /\ \A k \in 1..Len(needle) : s[i + k - 1] = needle[k]

Contains(needle, s) == \E i \in 1..Len(s) : MatchAt(needle, s, i)

\* ------------------------------------------------------------ JSON values

Str(s) == [t |-> "str", v |-> s]
Dict(items) == [t |-> "dict", v |-> items]
List(items) == [t |-> "list", v |-> items]
Null == [t |-> "null", v |-> <<>>]

IsStr(x) == x.t = "str"
IsDict(x) == x.t = "dict"

\* slip: `is None` tests where the code tests truthiness
TruthyIsNotNone(x) == x.t # "null"

\* Python truthiness of a decoded JSON value (and of None)
Truthy(x) == x.t # "null" /\ Len(x.v) > 0

HasKey(d, k) == \E i \in 1..Len(d.v) : d.v[i][1] = k

\* dict.get(k, default)
Get(d, k, default) ==
    IF HasKey(d, k)
    THEN d.v[CHOOSE i \in 1..Len(d.v) : d.v[i][1] = k][2]
    ELSE default

\* a == b on two decoded values of the model
Eq(a, b) == a.t = b.t /\ a.v = b.v

\* x or y
Or(x, y) == IF Truthy(x) THEN x ELSE y

\* ------------------------------------------------- receive_sms: extraction

KwMessageReceived == <<"m", "e", "s", "s", "a", "g", "e", ".", "r", "e", "c", "e", "i", "v", "e", "d">>

\* a handler's exception, caught by its `except Exception`
Raise == [exc |-> TRUE, phone |-> Null, message_text |-> Null, received_at |-> Null]

\* phone = None, message_text = None, received_at = datetime.now().isoformat()
ParseStart(now) ==
    [exc |-> FALSE, phone |-> Null, message_text |-> Null, received_at |-> Str(now)]

NeedsMore(st) == ~Truthy(st.phone) \/ ~Truthy(st.message_text)

\* Method 1: event_type == 'message.received', data.payload
Method1(data, st) ==
    IF ~IsDict(data) THEN Raise
    ELSE IF ~Eq(Get(data, "event_type", Null), Str(KwMessageReceived)) THEN st
    ELSE LET d == Get(data, "data", Dict(<<>>)) IN
         IF ~IsDict(d) THEN Raise
         ELSE LET payload == Get(d, "payload", Dict(<<>>)) IN
              IF ~IsDict(payload) THEN Raise
              ELSE LET from == Get(payload, "from", Dict(<<>>)) IN
                   IF ~IsDict(from) THEN Raise
                   ELSE [exc |-> FALSE,
                         phone |-> Get(from, "phone_number", Str(<<>>)),
                         message_text |-> Get(payload, "text", Str(<<>>)),
                         received_at |-> Get(payload, "received_at", st.received_at)]

\* Method 2: data.from / data.text or data.body
Method2(data, st) ==
    IF st.exc \/ ~NeedsMore(st) THEN st
    ELSE LET message_data == Get(data, "data", Dict(<<>>)) IN
         IF ~IsDict(message_data) THEN Raise
         ELSE LET from == Get(message_data, "from", Null) IN
              [exc |-> FALSE,
               phone |-> IF IsDict(from)
                         THEN Get(from, "phone_number", Str(<<>>))
                         ELSE Get(message_data, "from", Str(<<>>)),
               message_text |-> Or(Get(message_data, "text", Str(<<>>)),
                                   Get(message_data, "body", Str(<<>>))),
               received_at |-> Get(message_data, "received_at", st.received_at)]

\* Method 3: the same names at the top level of the body
Method3(data, st) ==
    IF st.exc \/ ~NeedsMore(st) THEN st
    ELSE LET from == Get(data, "from", Null) IN
         [exc |-> FALSE,
          phone |-> IF IsDict(from)
                    THEN Get(from, "phone_number", Str(<<>>))
                    ELSE Get(data, "from", Str(<<>>)),
          message_text |-> Or(Or(Get(data, "text", Str(<<>>)),
                                 Get(data, "body", Str(<<>>))),
                              Get(data, "message", Str(<<>>))),
          received_at |-> st.received_at]

\* Method 4: depth-first search of the whole body; a later hit replaces an
\* earlier one.  Returns <<phone, message>>.
RECURSIVE find_phone_and_message(_, _, _)
RECURSIVE FindInItems(_, _, _, _)
RECURSIVE FindInList(_, _, _, _)
find_phone_and_message(obj, phone, message) ==
    IF obj.t = "dict" THEN FindInItems(obj.v, 1, phone, message)
    ELSE IF obj.t = "list" THEN FindInList(obj.v, 1, phone, message)
    ELSE <<phone, message>>

FindInItems(items, i, phone, message) ==
    IF i > Len(items) THEN <<phone, message>>
    ELSE LET key == items[i][1]
             value == items[i][2]
         IN IF key \in {"phone_number", "from"} /\ IsStr(value)
                  /\ Len(value.v) > 0 /\ value.v[1] = "+"
            THEN FindInItems(items, i + 1, value, message)
            ELSE IF key \in {"text", "body", "message"} /\ IsStr(value) /\ Len(value.v) > 0
            THEN FindInItems(items, i + 1, phone, value)
            ELSE IF value.t \in {"dict", "list"}
            THEN LET r == find_phone_and_message(value, phone, message)
                 IN FindInItems(items, i + 1, r[1], r[2])
            ELSE FindInItems(items, i + 1, phone, message)

FindInList(items, i, phone, message) ==
    IF i > Len(items) THEN <<phone, message>>
    ELSE LET r == find_phone_and_message(items[i], phone, message)
         IN FindInList(items, i + 1, r[1], r[2])

Method4(data, st) ==
    IF st.exc \/ ~NeedsMore(st) THEN st
    ELSE LET r == find_phone_and_message(data, Null, Null)
         IN [exc |-> FALSE, phone |-> r[1], message_text |-> r[2],
             received_at |-> st.received_at]

\* line 93: if not phone or not message_text
Missing(p) == ~Truthy(p.phone) \/ ~Truthy(p.message_text)

\* lines 45-91: the four methods in order
ParseBody(data, now) ==
    Method4(data, Method3(data, Method2(data, Method1(data, ParseStart(now)))))

\* ------------------------------------------------ receive_sms: the code

KwCode == <<"c", "o", "d", "e">>
KwVerification == <<"v", "e", "r", "i", "f", "i", "c", "a", "t", "i", "o", "n">>

\* \b(\d{k})\b matches at position i
BareRunAt(s, i, k) ==
    /\ i + k - 1 <= Len(s)
    /\ \A j \in i..(i + k - 1) : IsDigit(s[j])
    /\ (i = 1 \/ ~IsWordChar(s[i - 1]))
    /\ (i + k - 1 = Len(s) \/ ~IsWordChar(s[i + k]))

\* first index >= j that [:\s]* does not consume
RECURSIVE SkipSeparators(_, _)
SkipSeparators(s, j) ==
    IF j <= Len(s) /\ (s[j] = ":" \/ IsSpace(s[j])) THEN SkipSeparators(s, j + 1) ELSE j

\* number of digits from index j on
RECURSIVE DigitRun(_, _)
DigitRun(s, j) ==
    IF j <= Len(s) /\ IsDigit(s[j]) THEN 1 + DigitRun(s, j + 1) ELSE 0

Min(a, b) == IF a < b THEN a ELSE b
MinOf(S) == CHOOSE x \in S : \A y \in S : x <= y

\* kw[:\s]*(\d{4,8}) with re.IGNORECASE matches at position i
KeywordAt(kw, s, i) ==
    /\ MatchAt(kw, Lowered(s), i)
    /\ DigitRun(s, SkipSeparators(s, i + Len(kw))) >= 4

BarePattern(k) == [kind |-> "bare", k |-> k, kw |-> <<>>]
KeywordPattern(kw) == [kind |-> "keyword", k |-> 0, kw |-> kw]

\* code_patterns, in the order of the list
code_patterns ==
    <<BarePattern(6), BarePattern(5), BarePattern(4),
      KeywordPattern(KwCode), KeywordPattern(KwVerification)>>

\* re.search(pattern, message_text, re.IGNORECASE): group(1) of the leftmost
\* match, or Null
Search(pattern, s) ==
    IF pattern.kind = "bare"
    THEN LET hits == {i \in 1..Len(s) : BareRunAt(s, i, pattern.k)}
         IN IF hits = {} THEN Null
            ELSE Str(SubSeq(s, MinOf(hits), MinOf(hits) + pattern.k - 1))
    ELSE LET hits == {i \in 1..Len(s) : KeywordAt(pattern.kw, s, i)}
         IN IF hits = {} THEN Null
            ELSE LET j == SkipSeparators(s, MinOf(hits) + Len(pattern.kw))
                 IN Str(SubSeq(s, j, j + Min(DigitRun(s, j), 8) - 1))

\* lines 107-112: the first pattern of the list that matches
RECURSIVE FirstMatch(_, _, _)
FirstMatch(patterns, n, s) ==
    IF n > Len(patterns) THEN Null
    ELSE IF Search(patterns[n], s).t # "null" THEN Search(patterns[n], s)
    ELSE FirstMatch(patterns, n + 1, s)

ExtractCode(message_text) == FirstMatch(code_patterns, 1, message_text)

\* -------------------------------------------- receive_sms: the platform

KwInstagram == <<"i", "n", "s", "t", "a", "g", "r", "a", "m">>
KwIg == <<"i", "g">>
KwTiktok == <<"t", "i", "k", "t", "o", "k">>
KwTikTok == <<"t", "i", "k", " ", "t", "o", "k">>
KwYoutube == <<"y", "o", "u", "t", "u", "b", "e">>
KwGoogle == <<"g", "o", "o", "g", "l", "e">>
KwTwitter == <<"t", "w", "i", "t", "t", "e", "r">>
KwXCom == <<"x", ".", "c", "o", "m">>

\* lines 115-125
DetectPlatform(message_text) ==
    LET message_lower == Lowered(message_text) IN
    IF Contains(KwInstagram, message_lower) \/ Contains(KwIg, message_lower) THEN "instagram"
    ELSE IF Contains(KwTiktok, message_lower) \/ Contains(KwTikTok, message_lower) THEN "tiktok"
    ELSE IF Contains(KwYoutube, message_lower) \/ Contains(KwGoogle, message_lower) THEN "youtube"
    ELSE IF Contains(KwTwitter, message_lower) \/ Contains(KwXCom, message_lower) THEN "twitter"
    ELSE "unknown"

\* -------------------------------------------------- table sms_messages

\* slip: INSERT OR REPLACE keyed on (phone, message)
InsertOrReplace(st, phone, message, timestamp, extracted_code, platform) ==
    LET row == [id |-> Len(st) + 1, phone |-> phone, message |-> message,
                timestamp |-> timestamp, extracted_code |-> extracted_code,
                platform |-> platform, used |-> FALSE]
    IN IF \E i \in 1..Len(st) : st[i].phone = phone /\ st[i].message = message
       THEN [i \in 1..Len(st) |->
                IF st[i].phone = phone /\ st[i].message = message
                THEN [row EXCEPT !.id = i] ELSE st[i]]
       ELSE Append(st, row)

\* INSERT INTO sms_messages (phone, message, timestamp, extracted_code,
\* platform): id is the AUTOINCREMENT key, used takes its DEFAULT 0
Insert(st, phone, message, timestamp, extracted_code, platform) ==
    Append(st, [id |-> Len(st) + 1,
                phone |-> phone,
                message |-> message,
                timestamp |-> timestamp,
                extracted_code |-> extracted_code,
                platform |-> platform,
                used |-> FALSE])

Ids(st) == 1..Len(st)

\* slip: ORDER BY timestamp ASC
OrderByTimestampAsc(st, ids) ==
    LET n == Cardinality(ids) IN
    {o \in [1..n -> ids] :
        /\ \A i, j \in 1..n : i # j => o[i] # o[j]
        /\ \A i, j \in 1..n : i < j => ~StrLess(st[o[j]].timestamp, st[o[i]].timestamp)}

\* ORDER BY timestamp DESC over the rows `ids`: every order of those rows in
\* which no row precedes one with a greater timestamp.  SQL leaves the order
\* of rows with equal timestamps open, so each such order is a possible result.
OrderByTimestampDesc(st, ids) ==
    LET n == Cardinality(ids) IN
    {o \in [1..n -> ids] :
        /\ \A i, j \in 1..n : i # j => o[i] # o[j]
        /\ \A i, j \in 1..n : i < j => ~StrLess(st[o[i]].timestamp, st[o[j]].timestamp)}

\* LIMIT n (a negative LIMIT is no limit in SQLite)
Limit(rows, n) == IF n < 0 THEN rows ELSE SubSeq(rows, 1, Min(n, Len(rows)))

\* WHERE phone = ? AND extracted_code IS NOT NULL
WhereLatestCode(st, phone) ==
    {i \in Ids(st) : st[i].phone = phone /\ st[i].extracted_code.t # "null"}

\* slip: the platform is left out of the WHERE clause
WhereUnusedCodeAnyPlatform(st, phone, platform) ==
    {i \in 1..Len(st) : /\ st[i].phone = phone
                        /\ st[i].extracted_code.t # "null"
                        /\ ~st[i].used}

\* WHERE phone = ? AND platform = ? AND extracted_code IS NOT NULL AND used = 0
WhereUnusedCode(st, phone, platform) ==
    {i \in Ids(st) : /\ st[i].phone = phone
                     /\ st[i].platform = platform
                     /\ st[i].extracted_code.t # "null"
                     /\ ~st[i].used}

\* WHERE phone = ?
WherePhone(st, phone) == {i \in Ids(st) : st[i].phone = phone}

\* the possible results of the SELECT of get_latest_code (0 or 1 row ids)
SelectLatestCode(st, phone) ==
    {Limit(o, 1) : o \in OrderByTimestampDesc(st, WhereLatestCode(st, phone))}

\* the possible results of the SELECT of get_platform_code
SelectUnusedCode(st, phone, platform) ==
    {Limit(o, 1) : o \in OrderByTimestampDesc(st, WhereUnusedCode(st, phone, platform))}

\* the possible results of the SELECT of get_messages
SelectMessages(st, phone, limit) ==
    {Limit(o, limit) : o \in OrderByTimestampDesc(st, WherePhone(st, phone))}

\* the possible results of the SELECT of debug_messages
SelectDebug(st, phone) == OrderByTimestampDesc(st, WherePhone(st, phone))

\* slip: the UPDATE is never committed
MarkUsedNoCommit(st, phone, platform, code) == st

\* UPDATE sms_messages SET used = 1
\* WHERE phone = ? AND platform = ? AND extracted_code = ?
MarkUsed(st, phone, platform, code) ==
    [i \in Ids(st) |->
        IF /\ st[i].phone = phone
           /\ st[i].platform = platform
           /\ st[i].extracted_code.t # "null"
           /\ st[i].extracted_code.v = code.v
        THEN [st[i] EXCEPT !.used = TRUE]
        ELSE st[i]]

\* SELECT COUNT(*) FROM sms_messages WHERE timestamp > ?
CountSince(st, cutoff) ==
    Cardinality({i \in Ids(st) : StrLess(cutoff, st[i].timestamp)})

\* ------------------------------------------------------------ responses

\* The response of the last request handled.  rows holds the ids of the rows
\* the handler fetched, in the order fetched; the JSON a client sees is made
\* of the columns of those rows.
NoResponse ==
    [op |-> "none", status |-> "", phone |-> <<>>, platform |-> "",
     code |-> Null, timestamp |-> <<>>, rows |-> <<>>, n |-> 0,
     code_extracted |-> FALSE]

Idle == [pc |-> "idle", phone |-> <<>>, platform |-> "", row |-> 0, code |-> Null]

\* ---------------------------------------------------------------- inputs

\* two instants, as the strings the table orders them by
Time1 == <<"1">>
Time2 == <<"2">>
Times == {Time1, Time2}

Phone1 == <<"+", "1">>
Phone2 == <<"+", "2">>
Phones == {Phone1, Phone2}
Platforms == {"instagram", "tiktok"}
Limits == (0 - 1)..MaxLimit

MsgIg1234 == <<"i", "g", " ", "1", "2", "3", "4">>
MsgIg5678 == <<"I", "G", " ", "c", "o", "d", "e", " ", "5", "6", "7", "8">>
MsgTiktok1234 == <<"t", "i", "k", "t", "o", "k", " ", "1", "2", "3", "4">>
MsgIgNoCode == <<"i", "g", " ", "h", "i">>
Messages == {MsgIg1234, MsgIg5678, MsgTiktok1234, MsgIgNoCode}

\* {"event_type": "message.received",
\*  "data": {"payload": {"from": {"phone_number": p}, "text": m, "received_at": ts}}}
EventBody(p, m, ts) ==
    Dict(<< <<"event_type", Str(KwMessageReceived)>>,
            <<"data", Dict(<< <<"payload",
                Dict(<< <<"from", Dict(<< <<"phone_number", Str(p)>> >>)>>,
                        <<"text", Str(m)>>,
                        <<"received_at", Str(ts)>> >>)>> >>)>> >>)

\* the same without received_at
EventBodyNoTime(p, m) ==
    Dict(<< <<"event_type", Str(KwMessageReceived)>>,
            <<"data", Dict(<< <<"payload",
                Dict(<< <<"from", Dict(<< <<"phone_number", Str(p)>> >>)>>,
                        <<"text", Str(m)>> >>)>> >>)>> >>)

EmptyBody == Dict(<<>>)

\* the webhooks of the request-by-request specification: every message of
\* Phone1 at either instant, one message of Phone2, one body without
\* received_at and one without anything
StoreBodies ==
    {EventBody(Phone1, m, ts) : m \in Messages, ts \in Times}
    \cup {EventBody(Phone2, MsgIg1234, ts) : ts \in Times}
    \cup {EventBodyNoTime(Phone1, MsgIg1234), EmptyBody}

\* --------------------------------------------------------------- handlers

\* POST /webhook/telnyx
ReceiveSms(data) ==
    /\ Len(store) < MaxRecords
    /\ \E now \in Times :
        LET p == ParseBody(data, now) IN
        IF p.exc
        THEN /\ last' = [NoResponse EXCEPT !.op = "webhook", !.status = "error"]
             /\ store' = store
        ELSE IF Missing(p)
        THEN /\ last' = [NoResponse EXCEPT !.op = "webhook", !.status = "error"]
             /\ store' = store
        ELSE IF ~IsStr(p.message_text) \/ ~IsStr(p.phone) \/ ~IsStr(p.received_at)
        THEN \* re.search or the INSERT raises
             /\ last' = [NoResponse EXCEPT !.op = "webhook", !.status = "error"]
             /\ store' = store
        ELSE LET extracted_code == ExtractCode(p.message_text.v)
                 platform == DetectPlatform(p.message_text.v)
             IN /\ store' = Insert(store, p.phone.v, p.message_text.v,
                                   p.received_at.v, extracted_code, platform)
                /\ last' = [NoResponse EXCEPT !.op = "webhook",
                                              !.status = "received",
                                              !.phone = p.phone.v,
                                              !.platform = platform,
                                              !.code_extracted = Truthy(extracted_code)]
    /\ UNCHANGED <<request, calls>>

\* GET /get_code/{phone}
GetLatestCode(phone) ==
    /\ \E result \in SelectLatestCode(store, phone) :
        last' = IF Len(result) > 0
                THEN [NoResponse EXCEPT !.op = "get_code",
                                        !.phone = phone,
                                        !.code = store[result[1]].extracted_code,
                                        !.platform = store[result[1]].platform,
                                        !.timestamp = store[result[1]].timestamp,
                                        !.rows = result]
                ELSE [NoResponse EXCEPT !.op = "get_code", !.phone = phone]
    /\ UNCHANGED <<store, request, calls>>

\* GET /get_code/{phone}/{platform}
GetPlatformCode(phone, platform) ==
    /\ \E result \in SelectUnusedCode(store, phone, platform) :
        IF Len(result) > 0
        THEN /\ store' = MarkUsed(store, phone, platform, store[result[1]].extracted_code)
             /\ last' = [NoResponse EXCEPT !.op = "consume",
                                           !.phone = phone,
                                           !.platform = platform,
                                           !.code = store[result[1]].extracted_code,
                                           !.timestamp = store[result[1]].timestamp,
                                           !.rows = result]
        ELSE /\ store' = store
             /\ last' = [NoResponse EXCEPT !.op = "consume",
                                           !.phone = phone,
                                           !.platform = platform]
    /\ UNCHANGED <<request, calls>>

\* GET /messages/{phone}?limit=N
GetMessages(phone, limit) ==
    /\ \E results \in SelectMessages(store, phone, limit) :
        last' = [NoResponse EXCEPT !.op = "messages",
                                   !.phone = phone,
                                   !.n = limit,
                                   !.rows = results]
    /\ UNCHANGED <<store, request, calls>>

\* GET /debug/{phone}
DebugMessages(phone) ==
    /\ \E results \in SelectDebug(store, phone) :
        last' = [NoResponse EXCEPT !.op = "debug",
                                   !.phone = phone,
                                   !.n = Len(results),
                                   !.rows = results]
    /\ UNCHANGED <<store, request, calls>>

\* GET /health
HealthCheck ==
    /\ \E cutoff \in Times :
        last' = [NoResponse EXCEPT !.op = "health",
                                   !.status = "healthy",
                                   !.n = CountSince(store, cutoff)]
    /\ UNCHANGED <<store, request, calls>>

\* GET /
Root ==
    /\ last' = [NoResponse EXCEPT !.op = "root"]
    /\ UNCHANGED <<store, request, calls>>

\* ------------------------------------------- one request after another

Workers == 1..MaxWorkers

Init ==
    /\ store = <<>>
    /\ last = NoResponse
    /\ request = Null
    /\ calls = [w \in Workers |-> Idle]

Next ==
    \/ \E data \in StoreBodies : ReceiveSms(data)
    \/ \E phone \in Phones : GetLatestCode(phone)
    \/ \E phone \in Phones, platform \in Platforms : GetPlatformCode(phone, platform)
    \/ \E phone \in Phones, limit \in Limits : GetMessages(phone, limit)
    \/ \E phone \in Phones : DebugMessages(phone)
    \/ HealthCheck
    \/ Root

Spec == Init /\ [][Next]_vars

\* ------------------------------------- one webhook body, any shape

\* a dict of the items whose value is present
Absent == [t |-> "absent", v |-> <<>>]
MkDict(items) == Dict(SelectSeq(items, LAMBDA it : it[2].t # "absent"))

PhoneNoPlus == <<"1">>
KwOther == <<"o", "t", "h", "e", "r">>

\* the scenario body of the specification's section 8
ScenarioPhone == <<"+", "1", "5", "5", "5", "1", "2", "3", "4", "5", "6", "7">>
ScenarioText == <<"Y", "o", "u", "r", " ", "I", "n", "s", "t", "a", "g", "r", "a", "m", " ", "c", "o", "d", "e", " ", "i", "s", " ", "4", "8", "2", "9", "1", "3">>
ScenarioTime == <<"2", "0", "2", "4", "-", "0", "1", "-", "0", "1", "T", "0", "0", ":", "0", "0", ":", "0", "0", "Z">>
ScenarioBody ==
    Dict(<< <<"data", Dict(<< <<"payload",
        Dict(<< <<"from", Dict(<< <<"phone_number", Str(ScenarioPhone)>> >>)>>,
                <<"text", Str(ScenarioText)>>,
                <<"received_at", Str(ScenarioTime)>> >>)>> >>)>> >>)

PayloadShapes ==
    {Absent} \cup
    {MkDict(<< <<"from", f>>, <<"text", x>>, <<"received_at", r>> >>) :
        f \in {Absent, Str(<<>>), Str(Phone1), Str(PhoneNoPlus),
               Dict(<< <<"phone_number", Str(Phone1)>> >>)},
        x \in {Absent, Str(<<>>), Str(MsgIg1234)},
        r \in {Absent, Str(Time1)}}

DataShapes ==
    {Absent, Null} \cup
    {MkDict(<< <<"payload", p>>, <<"from", f>>, <<"body", x>>, <<"received_at", r>> >>) :
        p \in PayloadShapes,
        f \in {Absent, Str(Phone2), Dict(<< <<"phone_number", Str(Phone2)>> >>)},
        x \in {Absent, Str(MsgTiktok1234)},
        r \in {Absent, Str(Time2)}}

BodyShapes ==
    {MkDict(<< <<"event_type", e>>, <<"data", d>>, <<"from", f>>, <<"message", x>> >>) :
        e \in {Absent, Str(KwMessageReceived), Str(KwOther)},
        d \in DataShapes,
        f \in {Absent, Str(PhoneNoPlus)},
        x \in {Absent, Str(MsgIgNoCode)}}

\* bodies only the deep search reads, and bodies that are no object
OddBodies ==
    {ScenarioBody,
     List(<< Dict(<< <<"from", Str(Phone1)>>, <<"text", Str(MsgIg1234)>> >>) >>),
     Dict(<< <<"messages", List(<< Dict(<< <<"from", Str(Phone1)>>,
                                             <<"body", Str(MsgIg1234)>> >>) >>)>> >>),
     Dict(<< <<"from", Str(Phone1)>>, <<"text", List(<< Str(MsgIg1234) >>)>> >>),
     Dict(<< <<"from", Str(Phone1)>>, <<"text", Str(MsgIg1234)>>,
             <<"data", Dict(<< <<"received_at", Null>> >>)>> >>)}

WebhookBodies == BodyShapes \cup OddBodies

InitWebhook ==
    /\ store = <<>>
    /\ last = NoResponse
    /\ request \in WebhookBodies
    /\ calls = [w \in Workers |-> Idle]

\* the provider posts the body
Deliver == ReceiveSms(request)

SpecWebhook == InitWebhook /\ [][Deliver]_vars

\* ------------------------------------- one webhook body, any text

SegCode == <<"c", "o", "d", "e">>
SegVerification == <<"V", "e", "r", "i", "f", "i", "c", "a", "t", "i", "o", "n">>
Seg4 == <<"1", "2", "3", "4">>
Seg5 == <<"9", "8", "7", "6", "5">>
Seg6 == <<"5", "6", "7", "8", "9", "0">>
Segments == {SegCode, SegVerification, Seg4, Seg5, Seg6, <<" ">>, <<":">>, <<"x">>}

RECURSIVE Texts(_)
Texts(n) ==
    IF n = 0 THEN {<<>>}
    ELSE Texts(n - 1) \cup {x \o g : x \in Texts(n - 1), g \in Segments}

InitExtract ==
    /\ store = <<>>
    /\ last = NoResponse
    /\ request \in {EventBody(Phone1, x, Time1) : x \in Texts(MaxSegments)}
    /\ calls = [w \in Workers |-> Idle]

SpecExtract == InitExtract /\ [][Deliver]_vars

\* ------------------------------ get_platform_code in several workers

\* lines 173-180 in worker w: the SELECT and fetchone(); without a row the
\* handler answers at once
SelectStep(w, phone, platform) ==
    /\ calls[w].pc = "idle"
    /\ \E result \in SelectUnusedCode(store, phone, platform) :
        IF Len(result) > 0
        THEN /\ calls' = [calls EXCEPT ![w] =
                    [pc |-> "update", phone |-> phone, platform |-> platform,
                     row |-> result[1], code |-> store[result[1]].extracted_code]]
             /\ last' = last
        ELSE /\ calls' = calls
             /\ last' = [NoResponse EXCEPT !.op = "consume",
                                           !.phone = phone,
                                           !.platform = platform]
    /\ UNCHANGED <<store, request>>

\* lines 182-197 in worker w: the UPDATE, the commit and the answer
UpdateStep(w) ==
    /\ calls[w].pc = "update"
    /\ store' = MarkUsed(store, calls[w].phone, calls[w].platform, calls[w].code)
    /\ last' = [NoResponse EXCEPT !.op = "consume",
                                  !.phone = calls[w].phone,
                                  !.platform = calls[w].platform,
                                  !.code = calls[w].code,
                                  !.timestamp = store[calls[w].row].timestamp,
                                  !.rows = <<calls[w].row>>]
    /\ calls' = [calls EXCEPT ![w] = Idle]
    /\ UNCHANGED request

NextWorkers ==
    \/ \E data \in StoreBodies : ReceiveSms(data)
    \/ \E w \in Workers, phone \in Phones, platform \in Platforms :
          SelectStep(w, phone, platform)
    \/ \E w \in Workers : UpdateStep(w)

SpecWorkers == Init /\ [][NextWorkers]_vars

\* ------------------------------------------------------------- properties

\* a value a strategy accepts: a non-empty value
NonEmpty(x) == x.t # "null" /\ Len(x.v) > 0

SameCode(a, b) == a.t = b.t /\ a.v = b.v

\* C1: when exactly one unused record with a code exists for (phone,
\* platform), get_platform_code answers with that record's code and leaves no
\* unused record for the pair; and called with no unused record for the pair,
\* as the second of two calls in a row is, it answers with a null code and
\* changes nothing.
C1_ConsumeOnceThenNull ==
    [][\A phone \in Phones, platform \in Platforms :
        (last'.op = "consume" /\ GetPlatformCode(phone, platform)) =>
            LET unused == WhereUnusedCode(store, phone, platform) IN
            /\ Cardinality(unused) = 1 =>
                /\ \A i \in unused : SameCode(last'.code, store[i].extracted_code)
                /\ WhereUnusedCode(store', phone, platform) = {}
            /\ unused = {} => (last'.code.t = "null" /\ store' = store)]_vars

\* the second call has answered null: the pair's only record with a code is
\* used, and a record of another platform is by its side
C1_Witness ==
    /\ last.op = "consume"
    /\ last.code.t = "null"
    /\ Cardinality({i \in Ids(store) : /\ store[i].phone = last.phone
                                        /\ store[i].platform = last.platform
                                        /\ store[i].extracted_code.t # "null"}) = 1
    /\ \E i \in Ids(store) : /\ store[i].phone = last.phone
                             /\ store[i].platform = last.platform
                             /\ store[i].used
    /\ \E i \in Ids(store) : store[i].platform # last.platform

\* C2: no two get_platform_code calls in flight hold the same row, each having
\* read it as unused and about to answer with it.
C2_NoRowHandedOutTwice ==
    \A w1, w2 \in Workers :
        (w1 # w2 /\ calls[w1].pc = "update" /\ calls[w2].pc = "update")
            => calls[w1].row # calls[w2].row

\* C3: a get_platform_code call that answers with a record sets used on that
\* record and on no other; a call that answers with none changes nothing.
C3_MarksOnlyTheSelectedRow ==
    [][\A phone \in Phones, platform \in Platforms :
        (last'.op = "consume" /\ GetPlatformCode(phone, platform)) =>
            IF last'.rows # <<>>
            THEN /\ Len(store') = Len(store)
                 /\ \A i \in Ids(store) :
                        (store'[i].used # store[i].used) <=> (i = last'.rows[1])
            ELSE store' = store]_vars

\* C4: every request keeps every stored record, with the same id, phone,
\* message, timestamp, extracted_code and platform; used never goes from true
\* to false; and only get_platform_code changes used.
C4_RecordsKeptUsedOnlyRises ==
    [][/\ Len(store') >= Len(store)
       /\ \A i \in Ids(store) :
            /\ store[i].id = i
            /\ store'[i] = [store[i] EXCEPT !.used = store'[i].used]
            /\ store[i].used => store'[i].used
            /\ (store'[i].used # store[i].used) => last'.op = "consume"
       /\ last'.op # "consume" => SubSeq(store', 1, Len(store)) = store]_vars

\* a webhook was stored after a record was consumed, and the consumed record
\* is still there, used
C4_Witness ==
    /\ Len(store) = 2
    /\ store[1].used
    /\ ~store[2].used
    /\ last.op = "webhook"
    /\ last.status = "received"

\* the body's phone and message as each method alone reads them
FindsBoth(st) == ~st.exc /\ NonEmpty(st.phone) /\ NonEmpty(st.message_text)

NoStrategyFinds(data) ==
    /\ IsDict(data)
    /\ ~FindsBoth(Method1(data, ParseStart(Time1)))
    /\ ~FindsBoth(Method2(data, ParseStart(Time1)))
    /\ ~FindsBoth(Method3(data, ParseStart(Time1)))
    /\ ~FindsBoth(Method4(data, ParseStart(Time1)))

\* C5: a webhook body in which no method finds both a non-empty phone and a
\* non-empty message is answered with status "error" and leaves the table as
\* it was; and every stored record has a non-empty phone and message.
C5_UnparsedBodyStoresNothing ==
    /\ [](\A i \in Ids(store) : Len(store[i].phone) > 0 /\ Len(store[i].message) > 0)
    /\ [][NoStrategyFinds(request) => (last'.status = "error" /\ store' = store)]_vars

\* a body that names a sender, but no text any method accepts, was refused
C5_Witness ==
    /\ NoStrategyFinds(request)
    /\ HasKey(request, "from")
    /\ last.op = "webhook"
    /\ last.status = "error"
    /\ store = <<>>

\* C6: the record get_platform_code answers with has the phone and the
\* platform asked for and a code, and was unused when the call began.
C6_ConsumedRowMatchesQuery ==
    [][\A phone \in Phones, platform \in Platforms :
        (last'.op = "consume" /\ last'.rows # <<>> /\ GetPlatformCode(phone, platform)) =>
            LET r == store[last'.rows[1]] IN
            /\ r.phone = phone
            /\ r.platform = platform
            /\ r.extracted_code.t # "null"
            /\ ~r.used
            /\ SameCode(last'.code, r.extracted_code)
            /\ last'.timestamp = r.timestamp]_vars

\* a record was handed out while an unused record with a code of the same
\* phone and another platform was in the table
C6_Witness ==
    /\ last.op = "consume"
    /\ last.rows # <<>>
    /\ \E j \in Ids(store) : /\ store[j].phone = last.phone
                             /\ store[j].platform # last.platform
                             /\ store[j].extracted_code.t # "null"
                             /\ ~store[j].used

\* C7: when the text holds a keyword-anchored code, the stored extracted_code
\* is the digit group of a keyword-anchored match.
C7_KeywordCodeWins ==
    \A i \in Ids(store) :
        LET c == Search(KeywordPattern(KwCode), store[i].message)
            v == Search(KeywordPattern(KwVerification), store[i].message)
            got == store[i].extracted_code
        IN (c.t = "str" \/ v.t = "str") =>
              \/ (c.t = "str" /\ SameCode(got, c))
              \/ (v.t = "str" /\ SameCode(got, v))

\* the object a structured strategy would read: its sender and its text
PathPhone(obj) ==
    LET from == Get(obj, "from", Null) IN
    IF IsDict(from) THEN Get(from, "phone_number", Null) ELSE from

PathText(obj) ==
    Or(Or(Get(obj, "text", Null), Get(obj, "body", Null)), Get(obj, "message", Null))

PathFinds(obj) ==
    /\ IsDict(obj)
    /\ IsStr(PathPhone(obj)) /\ NonEmpty(PathPhone(obj))
    /\ IsStr(PathText(obj)) /\ NonEmpty(PathText(obj))

DataOf(body) == IF IsDict(body) THEN Get(body, "data", Null) ELSE Null
PayloadOf(body) == IF IsDict(DataOf(body)) THEN Get(DataOf(body), "payload", Null) ELSE Null

\* body.data.payload, or body.data, whichever holds the phone and the message
MatchedPath(body) ==
    IF PathFinds(PayloadOf(body)) THEN PayloadOf(body)
    ELSE IF PathFinds(DataOf(body)) THEN DataOf(body)
    ELSE Null

\* C8: a record stored for a body whose phone and message are on the
\* structured path, with a received_at there, has that received_at as its
\* timestamp.
C8_ProviderTimestampStored ==
    [][(Len(store') > Len(store)
        /\ IsDict(MatchedPath(request))
        /\ IsStr(Get(MatchedPath(request), "received_at", Null)))
       => store'[Len(store')].timestamp = Get(MatchedPath(request), "received_at", Null).v]_vars

\* the phone's record with a code that has the greatest timestamp and, among
\* those, the highest id
NewestLastInserted(st, phone) ==
    CHOOSE i \in WhereLatestCode(st, phone) :
        \A j \in WhereLatestCode(st, phone) :
            /\ ~StrLess(st[i].timestamp, st[j].timestamp)
            /\ st[j].timestamp = st[i].timestamp => j <= i

\* C9: get_latest_code answers with the code, platform and timestamp of the
\* phone's record with a code that has the greatest timestamp and, among
\* those, was inserted last; with a null code only when the phone has no
\* record with a code.
C9_LatestCodeNewestLastInserted ==
    last.op = "get_code" =>
        IF WhereLatestCode(store, last.phone) = {} THEN last.code.t = "null"
        ELSE LET r == store[NewestLastInserted(store, last.phone)] IN
             /\ SameCode(last.code, r.extracted_code)
             /\ last.platform = r.platform
             /\ last.timestamp = r.timestamp

\* C10: for limit >= 0, get_messages answers with min(limit, n) records of the
\* phone, newest first, and leaves out no record newer than one it returns.
C10_RecentMessages ==
    (last.op = "messages" /\ last.n >= 0) =>
        LET mine == WherePhone(store, last.phone)
            got == last.rows
        IN /\ Len(got) = Min(last.n, Cardinality(mine))
           /\ \A i \in 1..Len(got) : got[i] \in mine
           /\ \A i, j \in 1..Len(got) :
                i < j => /\ got[i] # got[j]
                         /\ ~StrLess(store[got[i]].timestamp, store[got[j]].timestamp)
           /\ \A k \in mine \ Range(got) : \A i \in 1..Len(got) :
                ~StrLess(store[got[i]].timestamp, store[k].timestamp)

\* limit 1 cut a phone's two records, of different instants, down to one
C10_Witness ==
    /\ last.op = "messages"
    /\ last.n = 1
    /\ Len(last.rows) = 1
    /\ Cardinality(WherePhone(store, last.phone)) = 2
    /\ \E i, j \in WherePhone(store, last.phone) :
            StrLess(store[i].timestamp, store[j].timestamp)

====
